---- MODULE Spec2Model ----
(***************************************************************************)
(* A model of the changelog action: run() (the entry point), GitAnalyzer,  *)
(* createClaudeClient and ChangelogGenerator.                              *)
(*                                                                         *)
(* Text is a sequence of pieces.  A piece is a one-character string where  *)
(* the code looks at characters (model responses, diffs, hashes) and a     *)
(* literal chunk of the source where it does not (messages, the prompt's   *)
(* fixed paragraphs).  "\n" is the newline character; the two pieces       *)
(* "\\", "n" are a backslash followed by the letter n, which is what the   *)
(* source's '\\n' string literals and /\\s/ regex literals denote.         *)
(***************************************************************************)
EXTENDS Integers, Sequences, FiniteSets, TLC

VARIABLES
    pc,               \* position of run()
    cfg,              \* the action's inputs, as core.getInput returns them
    repo,             \* the repository simple-git reads
    today,            \* new Date().toISOString().split('T')[0]
    actualFromTag,    \* run(): actualFromTag
    commits,          \* getChangesBetween: commits
    files,            \* getChangesBetween: files
    totalInsertions,  \* getChangesBetween: totalInsertions
    totalDeletions,   \* getChangesBetween: totalDeletions
    idx,              \* getChangesBetween: position of the for loop in diffSummary.files
    diffCalls,        \* the files git.diff was called for, in call order
    warnings,         \* console.warn calls of getChangesBetween, in order
    client,           \* the ClaudeClient createClaudeClient returned
    prompt,           \* generateChangelog: prompt
    generateCalls,    \* number of claudeClient.generateResponse calls
    response,         \* generateChangelog: response.content
    changelog,        \* run(): changelog
    fileWrites,       \* fs.writeFile calls that succeeded, in order
    outputs,          \* core.setOutput calls, in order
    failed            \* core.setFailed calls, in order

vars == <<pc, cfg, repo, today, actualFromTag, commits, files, totalInsertions,
          totalDeletions, idx, diffCalls, warnings, client, prompt,
          generateCalls, response, changelog, fileWrites, outputs, failed>>

(***************************************************************************)
(* Bounds of the model.                                                    *)
(***************************************************************************)
MaxCommits == 2
MaxSummaryFiles == 3
MaxPromptFiles == 6
MaxLines == 2

(***************************************************************************)
(* Text helpers: the JavaScript string operations the code uses.           *)
(***************************************************************************)
Range(s) == {s[i] : i \in 1..Len(s)}

Min(a, b) == IF a < b THEN a ELSE b

\* String.prototype.substring(0, n)
Substring0(s, n) == SubSeq(s, 1, Min(n, Len(s)))

\* s.slice(from) for 0 <= from: the text after its first `from` pieces
DropFirst(s, k) == SubSeq(s, k + 1, Len(s))

StartsWith(s, p) == Len(p) <= Len(s) /\ SubSeq(s, 1, Len(p)) = p

\* String.prototype.includes
Includes(s, p) ==
    \E i \in 0..(Len(s) - Len(p)) : SubSeq(s, i + 1, i + Len(p)) = p

\* the white space String.prototype.trim removes
IsSpace(c) == c \in {" ", "\t", "\n", "\r"}

\* String.prototype.trim
Trim(s) ==
    LET nonSpace == {i \in 1..Len(s) : ~IsSpace(s[i])}
    IN  IF nonSpace = {} THEN <<>>
        ELSE LET lo == CHOOSE i \in nonSpace : \A j \in nonSpace : i <= j
                 hi == CHOOSE i \in nonSpace : \A j \in nonSpace : j <= i
             IN  SubSeq(s, lo, hi)

\* String.prototype.split(sep) for a non-empty separator
RECURSIVE Split(_, _)
Split(s, sep) ==
    LET hits == {i \in 0..(Len(s) - Len(sep)) : SubSeq(s, i + 1, i + Len(sep)) = sep}
    IN  IF hits = {} THEN <<s>>
        ELSE LET i == CHOOSE h \in hits : \A g \in hits : h <= g
             IN  <<SubSeq(s, 1, i)>> \o Split(DropFirst(s, i + Len(sep)), sep)

\* Array.prototype.join(sep)
RECURSIVE Join(_, _)
Join(parts, sep) ==
    IF Len(parts) = 0 THEN <<>>
    ELSE IF Len(parts) = 1 THEN parts[1]
    ELSE parts[1] \o sep \o Join(Tail(parts), sep)

UpperChars == <<"A", "B", "C", "D", "E", "F", "G", "H", "I", "J", "K", "L", "M",
                "N", "O", "P", "Q", "R", "S", "T", "U", "V", "W", "X", "Y", "Z">>
LowerChars == <<"a", "b", "c", "d", "e", "f", "g", "h", "i", "j", "k", "l", "m",
                "n", "o", "p", "q", "r", "s", "t", "u", "v", "w", "x", "y", "z">>

\* String.prototype.toLowerCase, one character
LowerChar(c) ==
    IF \E i \in 1..Len(UpperChars) : UpperChars[i] = c
    THEN LowerChars[CHOOSE i \in 1..Len(UpperChars) : UpperChars[i] = c]
    ELSE c

\* String.prototype.toLowerCase
ToLowerCase(s) == [i \in 1..Len(s) |-> LowerChar(s[i])]

DigitChars == <<"0", "1", "2", "3", "4", "5", "6", "7", "8", "9">>

\* Number.prototype.toString and `${n}` for a non-negative integer
RECURSIVE NumberToString(_)
NumberToString(n) ==
    IF n < 10 THEN <<DigitChars[n + 1]>>
    ELSE NumberToString(n \div 10) \o <<DigitChars[(n % 10) + 1]>>

\* the source's '\\n': a backslash and the letter n
BackslashN == <<"\\", "n">>

RECURSIVE SumOver(_, _)
SumOver(s, field) ==
    IF Len(s) = 0 THEN 0 ELSE s[1][field] + SumOver(Tail(s), field)

(***************************************************************************)
(* createClaudeClient (claude-client).                                     *)
(***************************************************************************)
ClientOk(kind) == [ok |-> TRUE, kind |-> kind, error |-> <<>>]
ClientError(message) == [ok |-> FALSE, kind |-> "none", error |-> message]

VertexProjectIdRequired == <<"Vertex AI project ID is required when using Vertex AI">>
AnthropicApiKeyRequired ==
    <<"Anthropic API key is required when not using Bedrock or Vertex AI">>

createClaudeClient(config) ==
    IF config.useBedrock THEN ClientOk("bedrock")
    ELSE IF config.useVertex
         THEN IF config.vertexProjectId = ""
              THEN ClientError(VertexProjectIdRequired)
              ELSE ClientOk("vertex")
    ELSE IF config.anthropicApiKey = ""
         THEN ClientError(AnthropicApiKeyRequired)
         ELSE ClientOk("anthropic")

\* the message each variant's generateResponse wraps a failure in
GenerateFailurePrefix(kind) ==
    CASE kind = "bedrock" -> <<"Failed to generate Bedrock response: ">>
      [] kind = "vertex" -> <<"Failed to generate Vertex AI response: ">>
      [] OTHER -> <<"Failed to generate Claude response: ">>

\* what makes a variant's generateResponse throw inside its try block
GenerateFailureCause(kind, outcome) ==
    IF outcome = "transport_error" THEN <<"Error: request failed">>
    ELSE CASE kind = "bedrock" -> <<"Error: Unexpected response format from Bedrock">>
           [] kind = "vertex" -> <<"Error: No content in Vertex AI response">>
           [] OTHER -> <<"Error: Unexpected response type from Claude">>

(***************************************************************************)
(* ChangelogGenerator.buildPrompt.                                         *)
(***************************************************************************)
SignificantThreshold == 5
MaxDiffSamples == 5
MaxDiffChars == 1000

IsSignificant(f) == f.insertions + f.deletions > SignificantThreshold

\* files.filter(f => f.insertions + f.deletions > 5)
RECURSIVE FilterSignificant(_)
FilterSignificant(s) ==
    IF Len(s) = 0 THEN <<>>
    ELSE (IF IsSignificant(s[1]) THEN <<s[1]>> ELSE <<>>) \o FilterSignificant(Tail(s))

\* Array.prototype.slice(0, n)
Slice0(s, n) == SubSeq(s, 1, Min(n, Len(s)))

\* a plausible slip: the slice is forgotten
SampledFilesUncapped(fileList) == FilterSignificant(fileList)

\* files.filter(f => f.insertions + f.deletions > 5).slice(0, 5)
SampledFiles(fileList) == Slice0(FilterSignificant(fileList), MaxDiffSamples)

\* the three backquotes of a code fence (a TLA+ string cannot hold a backquote)
CodeFence == "<fence>"
CodeFenceDiff == "<fence>diff"
SampleTitle == "### "

\* one element of significantDiffs before the join
DiffSample(f) ==
    <<SampleTitle>> \o f.file \o BackslashN \o <<CodeFenceDiff>> \o BackslashN
        \o Substring0(f.diff, MaxDiffChars) \o BackslashN \o <<CodeFence>>

CommitLine(c) ==
    <<"- ">> \o Substring0(c.hash, 8) \o <<": ">> \o c.message \o <<" (">>
        \o c.author \o <<")">>

FileLine(f) ==
    <<"- ">> \o f.file \o <<": +">> \o NumberToString(f.insertions) \o <<" -">>
        \o NumberToString(f.deletions)

SampleHeader == "## Sample Code Changes"

PromptInstructions ==
    <<"\n\n## Instructions\nGenerate a changelog entry following these guidelines: ... Return only the changelog content without any explanatory text or metadata.">>

buildPrompt(changes) ==
    LET commitSummary ==
            Join([i \in 1..Len(changes.commits) |-> CommitLine(changes.commits[i])],
                 BackslashN)
        fileChanges ==
            Join([i \in 1..Len(changes.files) |-> FileLine(changes.files[i])],
                 BackslashN)
        sampled == SampledFiles(changes.files)
        significantDiffs ==
            Join([i \in 1..Len(sampled) |-> DiffSample(sampled[i])],
                 BackslashN \o BackslashN)
    IN  <<"You are a technical writer creating a changelog for a software project. Analyze the following git changes and generate a well-structured changelog entry.\n\n## Change Summary\n- **From:** ">>
        \o changes.fromTag \o <<"\n- **To:** ">> \o changes.toRef
        \o <<"\n- **Commits:** ">> \o NumberToString(Len(changes.commits))
        \o <<"\n- **Files changed:** ">> \o NumberToString(Len(changes.files))
        \o <<"\n- **Total changes:** +">> \o NumberToString(changes.totalInsertions)
        \o <<" -">> \o NumberToString(changes.totalDeletions)
        \o <<"\n\n## Commits\n">> \o commitSummary
        \o <<"\n\n## File Changes\n">> \o fileChanges \o <<"\n\n">>
        \o (IF Len(significantDiffs) > 0
            THEN <<SampleHeader>> \o BackslashN \o significantDiffs
            ELSE <<>>)
        \o PromptInstructions

(***************************************************************************)
(* ChangelogGenerator.formatAsMarkdown.                                    *)
(***************************************************************************)
H2Space == <<"#", "#", " ">>
H3Space == <<"#", "#", "#", " ">>

\* a plausible slip: the marker is looked for at the start of a line only
HasSectionMarkerAtLineStart(formatted) ==
    \E line \in Range(Split(formatted, <<"\n">>)) :
        StartsWith(line, H2Space) \/ StartsWith(line, H3Space)

\* formatted.includes('## ') || formatted.includes('### ')
HasSectionMarker(formatted) == Includes(formatted, H2Space) \/ Includes(formatted, H3Space)

UnreleasedHeader(date) ==
    H2Space \o <<"[Unreleased] - ">> \o date \o BackslashN \o BackslashN

formatAsMarkdown(content, date) ==
    LET formatted == Trim(content)
    IN  IF ~HasSectionMarker(formatted)
        THEN UnreleasedHeader(date) \o formatted
        ELSE formatted

(***************************************************************************)
(* JSON.stringify(value, null, 2) of the two documents formatAsJson makes. *)
(***************************************************************************)
EscapeChar(c) ==
    CASE c = "\"" -> <<"\\", "\"">>
      [] c = "\\" -> <<"\\", "\\">>
      [] c = "\n" -> <<"\\", "n">>
      [] c = "\r" -> <<"\\", "r">>
      [] c = "\t" -> <<"\\", "t">>
      [] OTHER -> <<c>>

RECURSIVE EscapeText(_)
EscapeText(s) ==
    IF Len(s) = 0 THEN <<>> ELSE EscapeChar(s[1]) \o EscapeText(Tail(s))

JsonString(s) == <<"\"">> \o EscapeText(s) \o <<"\"">>

JsonItems(items) ==
    IF Len(items) = 0 THEN <<"[]">>
    ELSE <<"[\n">>
         \o Join([i \in 1..Len(items) |-> <<"        ">> \o JsonString(items[i])],
                 <<",\n">>)
         \o <<"\n      ]">>

JsonSection(sec) ==
    <<"    {\n      \"type\": ">> \o JsonString(sec.type)
        \o <<",\n      \"items\": ">> \o JsonItems(sec.items) \o <<"\n    }">>

JsonSections(sections) ==
    IF Len(sections) = 0 THEN <<"[]">>
    ELSE <<"[\n">>
         \o Join([i \in 1..Len(sections) |-> JsonSection(sections[i])], <<",\n">>)
         \o <<"\n  ]">>

\* the GeneratedChangelog of the try block
ChangelogJson(date, sections, summary) ==
    <<"{\n  \"date\": ">> \o JsonString(date)
        \o <<",\n  \"sections\": ">> \o JsonSections(sections)
        \o <<",\n  \"summary\": ">> \o JsonString(summary) \o <<"\n}">>

\* the document of the catch block
FallbackJson(date, content, changes) ==
    <<"{\n  \"date\": ">> \o JsonString(date)
        \o <<",\n  \"content\": ">> \o JsonString(content)
        \o <<",\n  \"metadata\": {\n    \"commits\": ">>
        \o NumberToString(Len(changes.commits))
        \o <<",\n    \"files\": ">> \o NumberToString(Len(changes.files))
        \o <<",\n    \"insertions\": ">> \o NumberToString(changes.totalInsertions)
        \o <<",\n    \"deletions\": ">> \o NumberToString(changes.totalDeletions)
        \o <<",\n    \"fromTag\": ">> \o JsonString(changes.fromTag)
        \o <<",\n    \"toRef\": ">> \o JsonString(changes.toRef)
        \o <<"\n  }\n}">>

(***************************************************************************)
(* ChangelogGenerator.formatAsJson.                                        *)
(***************************************************************************)
CategoryNames ==
    << <<"A", "d", "d", "e", "d">>,
       <<"C", "h", "a", "n", "g", "e", "d">>,
       <<"D", "e", "p", "r", "e", "c", "a", "t", "e", "d">>,
       <<"R", "e", "m", "o", "v", "e", "d">>,
       <<"F", "i", "x", "e", "d">>,
       <<"S", "e", "c", "u", "r", "i", "t", "y">> >>

\* the length of the longest prefix of s made of the character c
RECURSIVE LeadingRun(_, _)
LeadingRun(s, c) ==
    IF Len(s) > 0 /\ s[1] = c THEN 1 + LeadingRun(Tail(s), c) ELSE 0

\* the alternation (Added|Changed|Deprecated|Removed|Fixed|Security) under /i at
\* the start of s: the matched text in a one-element sequence, or <<>>
MatchCategory(s) ==
    LET hits == {i \in 1..Len(CategoryNames) :
                    /\ Len(CategoryNames[i]) <= Len(s)
                    /\ ToLowerCase(SubSeq(s, 1, Len(CategoryNames[i])))
                          = ToLowerCase(CategoryNames[i])}
    IN  IF hits = {} THEN <<>>
        ELSE LET i == CHOOSE h \in hits : \A g \in hits : h <= g
             IN  <<SubSeq(s, 1, Len(CategoryNames[i]))>>

\* trimmed.match(/^##\\s*(Added|Changed|Deprecated|Removed|Fixed|Security)/i):
\* "##", a backslash, as many letters s as still let a category follow (greedy,
\* backtracking), a category.  The capture group in a one-element sequence, or <<>>.
SectionMatch(trimmed) ==
    IF ~StartsWith(trimmed, <<"#", "#", "\\">>) THEN <<>>
    ELSE LET rest == DropFirst(trimmed, 3)
             run == LeadingRun(ToLowerCase(rest), "s")
             ks == {k \in 0..run : Len(MatchCategory(DropFirst(rest, k))) > 0}
         IN  IF ks = {} THEN <<>>
             ELSE MatchCategory(DropFirst(rest, CHOOSE k \in ks : \A j \in ks : j <= k))

\* trimmed.match(/^[-*]\\s+/): "-" or "*", a backslash, one or more letters s
BulletMatch(trimmed) ==
    /\ Len(trimmed) >= 3
    /\ trimmed[1] \in {"-", "*"}
    /\ trimmed[2] = "\\"
    /\ trimmed[3] = "s"

\* trimmed.replace(/^[-*]\\s+/, '') of a line BulletMatch accepts
StripBullet(trimmed) ==
    DropFirst(trimmed, 2 + LeadingRun(DropFirst(trimmed, 2), "s"))

\* the parser's state before the first line; currentSection is null (<<>>) or one
\* section (<<section>>)
ParserStart == [sections |-> <<>>, currentSection |-> <<>>]

\* one iteration of `for (const line of lines)`
ParseLine(st, line) ==
    LET trimmed == Trim(line)
        sectionMatch == SectionMatch(trimmed)
    IN  IF Len(sectionMatch) > 0
        THEN [sections |-> st.sections \o st.currentSection,
              currentSection |->
                  <<[type |-> ToLowerCase(sectionMatch[1]), items |-> <<>>]>>]
        ELSE IF Len(st.currentSection) > 0 /\ BulletMatch(trimmed)
        THEN [st EXCEPT !.currentSection[1].items = Append(@, StripBullet(trimmed))]
        ELSE st

RECURSIVE ParseLines(_, _)
ParseLines(st, lines) ==
    IF Len(lines) = 0 THEN st ELSE ParseLines(ParseLine(st, lines[1]), Tail(lines))

\* content.split('\\n')
ContentLines(content) == Split(content, BackslashN)

\* the sections the try block ends with
ParsedSections(content) ==
    LET st == ParseLines(ParserStart, ContentLines(content))
    IN  st.sections \o st.currentSection

\* `${changes.commits.length} commits, ${changes.files.length} files changed`
SummaryText(changes) ==
    NumberToString(Len(changes.commits)) \o <<" commits, ">>
        \o NumberToString(Len(changes.files)) \o <<" files changed">>

\* no statement of the try block throws for a string content
ParseThrows(content) == FALSE

formatAsJson(content, changes, date) ==
    IF ParseThrows(content)
    THEN FallbackJson(date, content, changes)
    ELSE ChangelogJson(date, ParsedSections(content), SummaryText(changes))

(***************************************************************************)
(* Sample texts.                                                           *)
(***************************************************************************)
\* "## Fixed"
LineH2Fixed ==
    <<"#", "#", " ", "F", "i", "x", "e", "d">>

\* "- Fix a"
LineDashBullet ==
    <<"-", " ", "F", "i", "x", " ", "a">>

\* "##" backslash "Fixed": the header the regex literal accepts
LineBackslashFixed ==
    <<"#", "#", "\\", "F", "i", "x", "e", "d">>

\* "-" backslash "s x": the bullet the regex literal accepts
LineBackslashBullet ==
    <<"-", "\\", "s", " ", "x">>

\* prose
LineProse ==
    <<"h", "e", "l", "l", "o">>

\* "### Added"
LineH3Added ==
    <<"#", "#", "#", " ", "A", "d", "d", "e", "d">>

\* "Fixed"
LineBareFixed ==
    <<"F", "i", "x", "e", "d">>

\* "# Changed"
LineH1Changed ==
    <<"#", " ", "C", "h", "a", "n", "g", "e", "d">>

\* "##" backslash "sSECURITY"
LineBackslashSecurity ==
    <<"#", "#", "\\", "s", "S", "E", "C", "U", "R", "I", "T", "Y">>

\* " * y "
LineStarBullet ==
    <<" ", "*", " ", "y", " ">>

\* "a ## b"
LineMidMarker ==
    <<"a", " ", "#", "#", " ", "b">>

\* "# Fixed"
LineH1Fixed ==
    <<"#", " ", "F", "i", "x", "e", "d">>

\* "## FIXED"
LineH2UpperFixed ==
    <<"#", "#", " ", "F", "I", "X", "E", "D">>

\* "### Fixed"
LineH3Fixed ==
    <<"#", "#", "#", " ", "F", "i", "x", "e", "d">>

\* the six canonical headers, each followed by one bullet, newline-separated
SixCanonicalText ==
    <<"#", "#", " ", "A", "d", "d", "e", "d", "\n", "-", " ", "a", "\n", "#", "#", " ",
      "C", "h", "a", "n", "g", "e", "d", "\n", "-", " ", "b", "\n", "#", "#", " ", "D",
      "e", "p", "r", "e", "c", "a", "t", "e", "d", "\n", "-", " ", "c", "\n", "#", "#",
      " ", "R", "e", "m", "o", "v", "e", "d", "\n", "-", " ", "d", "\n", "#", "#", " ",
      "F", "i", "x", "e", "d", "\n", "-", " ", "e", "\n", "#", "#", " ", "S", "e", "c",
      "u", "r", "i", "t", "y", "\n", "-", " ", "f">>

\* "## Fixed", a newline, "- Corrected crash on null input"
Scenario3Text ==
    <<"#", "#", " ", "F", "i", "x", "e", "d", "\n", "-", " ", "C", "o", "r", "r", "e",
      "c", "t", "e", "d", " ", "c", "r", "a", "s", "h", " ", "o", "n", " ", "n", "u",
      "l", "l", " ", "i", "n", "p", "u", "t">>

CorrectedCrashItem ==
    <<"C", "o", "r", "r", "e", "c", "t", "e", "d", " ", "c", "r", "a", "s", "h", " ",
      "o", "n", " ", "n", "u", "l", "l", " ", "i", "n", "p", "u", "t">>

LineSamples ==
    {LineH2Fixed,
     LineDashBullet,
     LineBackslashFixed,
     LineBackslashBullet,
     LineProse,
     LineH3Added,
     LineBareFixed,
     LineH1Changed,
     LineBackslashSecurity,
     LineStarBullet,
     LineMidMarker,
     LineH1Fixed,
     LineH2UpperFixed,
     LineH3Fixed}

\* the sequences over S of length at most n
RECURSIVE SeqsUpTo(_, _)
SeqsUpTo(S, n) ==
    IF n = 0 THEN {<<>>}
    ELSE LET shorter == SeqsUpTo(S, n - 1)
         IN  shorter \cup {Append(q, x) : q \in {r \in shorter : Len(r) = n - 1}, x \in S}

\* the two line separators: the newline character, and a backslash followed by n
LineSeparators == {<<"\n">>, BackslashN}

\* the model responses the formatters are applied to
ResponseTexts ==
    {Join(ls, sep) : ls \in (SeqsUpTo(LineSamples, MaxLines) \ {<<>>}), sep \in LineSeparators}
        \cup {SixCanonicalText, Scenario3Text}

(***************************************************************************)
(* The environment: the action's inputs and the repository.                *)
(***************************************************************************)
\* run()'s locals after the defaults (`|| 'HEAD'`, `|| 'CHANGELOG.md'`,
\* `|| 'markdown'`, `=== 'true'`) were applied
Configs ==
    [githubToken : {"", "ghs_token"},
     anthropicApiKey : {"", "sk-ant-key"},
     fromTag : {"", "v0.9.0"},
     toRef : {"HEAD"},
     outputFile : {"CHANGELOG.md", "stdout", "notes.md"},
     format : {"markdown", "json"},
     useBedrock : BOOLEAN,
     useVertex : BOOLEAN,
     vertexProjectId : {"", "my-project"}]

\* a configuration with which run() reaches the generation step
DirectKeyConfig(format) ==
    [githubToken |-> "ghs_token", anthropicApiKey |-> "sk-ant-key",
     fromTag |-> "v0.9.0", toRef |-> "HEAD", outputFile |-> "CHANGELOG.md",
     format |-> format, useBedrock |-> FALSE, useVertex |-> FALSE,
     vertexProjectId |-> ""]

\* the i-th entry of log.all
LogEntry(i) ==
    [hash |-> NumberToString(i) \o <<"b", "c", "d", "e", "f", "1", "2", "3", "4">>,
     date |-> <<"2025-01-30T10:00:00+00:00">>,
     message |-> <<"fix: null pointer">>,
     author_name |-> <<"A">>,
     author_email |-> <<"a@example.com">>]

LogOf(n) == [i \in 1..n |-> LogEntry(i)]

\* a diff text of n characters
PatchText(n) == [j \in 1..n |-> DigitChars[(j % 10) + 1]]

FilePath(i) == <<"f">> \o NumberToString(i) \o <<".ts">>

\* an entry of diffSummary.files with the text git.diff returns for it (patch); a
\* binary entry (DiffResultBinaryFile) has no insertions and no deletions
TextEntry(i, shape) ==
    [file |-> FilePath(i), binary |-> FALSE, insertions |-> shape[1],
     deletions |-> shape[2], patch |-> PatchText(shape[3])]
BinaryEntry(i) ==
    [file |-> FilePath(i), binary |-> TRUE, before |-> 10, after |-> 20,
     patch |-> <<"Binary files differ">>]

EntryOf(i, shape) == IF shape = <<>> THEN BinaryEntry(i) ELSE TextEntry(i, shape)

SummaryOf(shapes) == [i \in 1..Len(shapes) |-> EntryOf(i, shapes[i])]

\* <<insertions, deletions, length of the diff text>>, or <<>> for a binary file
RunShapes == {<<6, 2, 3>>}
GitShapes == {<<3, 1, 4>>, <<0, 2, 2>>, <<6, 2, 8>>, <<>>}
PromptShapes == {<<3, 2, 1200>>, <<3, 3, 1001>>, <<6, 0, 2>>}

MaxRunFiles == 1

Repos(tagLists, commitCounts, shapeLists) ==
    {[tags |-> t, log |-> LogOf(n), summary |-> SummaryOf(sh)] :
        t \in tagLists, n \in commitCounts, sh \in shapeLists}

RunRepos ==
    Repos({<<>>, <<"v1.0.0">>}, 0..MaxCommits, SeqsUpTo(RunShapes, MaxRunFiles))
GitRepos ==
    Repos({<<"v1.0.0">>}, 0..MaxCommits, SeqsUpTo(GitShapes, MaxSummaryFiles))
PromptRepos ==
    Repos({<<"v1.0.0">>}, {1}, SeqsUpTo(PromptShapes, MaxPromptFiles))
FormatRepos ==
    Repos({<<"v1.0.0">>}, {1}, {<<>>, << <<6, 2, 3>> >>})

Dates == {<<"2025-01-31">>}

RunResponses == {Scenario3Text, LineProse}

(***************************************************************************)
(* GitAnalyzer.getChangesBetween, as run() awaits it.                      *)
(***************************************************************************)
\* log.all.map(commit => ({...}))
GitCommitOf(entry) ==
    [hash |-> entry.hash, date |-> entry.date, message |-> entry.message,
     author |-> entry.author_name, email |-> entry.author_email]

\* (file as DiffResultTextFile).insertions || 0
InsertionsOf(file) == IF file.binary THEN 0 ELSE file.insertions
\* (file as DiffResultTextFile).deletions || 0
DeletionsOf(file) == IF file.binary THEN 0 ELSE file.deletions

GitChangeOf(file, diff) ==
    [file |-> file.file, insertions |-> InsertionsOf(file),
     deletions |-> DeletionsOf(file), diff |-> diff]

\* the totals after the try branch pushed `file`
TotalAfterRetrieved(total, count) == total + count
\* the totals after the catch branch pushed `file`
TotalAfterFailed(total, count) == total

\* the AnalyzedChanges getChangesBetween returns
Changes ==
    [commits |-> commits, files |-> files, totalInsertions |-> totalInsertions,
     totalDeletions |-> totalDeletions, fromTag |-> actualFromTag,
     toRef |-> <<cfg.toRef>>]

AnalyzeFailure(error) == <<"Failed to analyze git changes: ">> \o error

envVars == <<cfg, repo, today>>
gitVars == <<commits, files, totalInsertions, totalDeletions, idx, diffCalls>>
genVars == <<client, prompt, generateCalls, response, changelog>>
outVars == <<fileWrites, outputs>>

\* a plausible slip: the failure is reported and the error thrown on, so that it is
\* reported again
FailTwice(cause) ==
    /\ failed' = failed \o << <<"Action failed: ">> \o cause, <<"Action failed: ">> \o cause >>
    /\ pc' = "done"

\* the catch of run(): core.setFailed(`Action failed: ${errorMessage}`)
Fail(cause) ==
    /\ failed' = Append(failed, <<"Action failed: ">> \o cause)
    /\ pc' = "done"

\* run(), from its start to the first await or throw
Start ==
    /\ pc = "start"
    /\ IF cfg.githubToken = ""
       THEN Fail(<<"GitHub token is required">>) /\ UNCHANGED actualFromTag
       ELSE IF cfg.fromTag # ""
       THEN /\ actualFromTag' = <<cfg.fromTag>>
            /\ pc' = "git_log"
            /\ UNCHANGED failed
       ELSE /\ pc' = "latest_tag"
            /\ UNCHANGED <<actualFromTag, failed>>
    /\ UNCHANGED <<envVars, gitVars, warnings, genVars, outVars>>

\* getLatestTag resolves: tags.latest || tags.all[0] || null, null when git.tags throws
LatestTag ==
    /\ pc = "latest_tag"
    /\ \E ok \in BOOLEAN :
          IF ok /\ Len(repo.tags) > 0
          THEN /\ actualFromTag' = <<repo.tags[1]>>
               /\ pc' = "git_log"
               /\ UNCHANGED <<failed, warnings>>
          ELSE /\ Fail(<<"No from tag specified and no tags found in repository">>)
               /\ warnings' = IF ok THEN warnings
                              ELSE Append(warnings, <<"Failed to get latest tag:">>)
               /\ UNCHANGED actualFromTag
    /\ UNCHANGED <<envVars, gitVars, genVars, outVars>>

\* git.log resolves or throws
GitLog ==
    /\ pc = "git_log"
    /\ \E ok \in BOOLEAN :
          IF ok
          THEN /\ commits' = [i \in 1..Len(repo.log) |-> GitCommitOf(repo.log[i])]
               /\ pc' = "git_diff_summary"
               /\ UNCHANGED failed
          ELSE /\ Fail(AnalyzeFailure(<<"Error: unknown revision">>))
               /\ UNCHANGED commits
    /\ UNCHANGED <<envVars, actualFromTag, files, totalInsertions, totalDeletions,
                   idx, diffCalls, warnings, genVars, outVars>>

\* git.diffSummary resolves or throws; the loop starts
GitDiffSummary ==
    /\ pc = "git_diff_summary"
    /\ \E ok \in BOOLEAN :
          IF ok
          THEN /\ files' = <<>>
               /\ totalInsertions' = 0
               /\ totalDeletions' = 0
               /\ idx' = 1
               /\ pc' = IF Len(repo.summary) = 0 THEN "analyzed" ELSE "git_diff"
               /\ UNCHANGED failed
          ELSE /\ Fail(AnalyzeFailure(<<"Error: diff summary failed">>))
               /\ UNCHANGED <<files, totalInsertions, totalDeletions, idx>>
    /\ UNCHANGED <<envVars, actualFromTag, commits, diffCalls, warnings, genVars,
                   outVars>>

\* a plausible slip: no inner try, so that a failed git.diff reaches the outer catch
GitDiffFileAborting ==
    /\ pc = "git_diff"
    /\ \E ok \in BOOLEAN :
          LET file == repo.summary[idx]
          IN  /\ diffCalls' = Append(diffCalls, file.file)
              /\ IF ok
                 THEN /\ files' = Append(files, GitChangeOf(file, file.patch))
                      /\ totalInsertions' =
                            TotalAfterRetrieved(totalInsertions, InsertionsOf(file))
                      /\ totalDeletions' =
                            TotalAfterRetrieved(totalDeletions, DeletionsOf(file))
                      /\ idx' = idx + 1
                      /\ pc' = IF idx = Len(repo.summary) THEN "analyzed" ELSE "git_diff"
                      /\ UNCHANGED failed
                 ELSE /\ Fail(AnalyzeFailure(<<"Error: diff failed">>))
                      /\ UNCHANGED <<files, totalInsertions, totalDeletions, idx>>
    /\ UNCHANGED <<envVars, actualFromTag, commits, warnings, genVars, outVars>>

\* git.diff for diffSummary.files[idx] resolves or throws; the next iteration starts
\* or the loop ends and getChangesBetween returns
GitDiffFile ==
    /\ pc = "git_diff"
    /\ \E ok \in BOOLEAN :
          LET file == repo.summary[idx]
          IN  /\ diffCalls' = Append(diffCalls, file.file)
              /\ IF ok
                 THEN /\ files' = Append(files, GitChangeOf(file, file.patch))
                      /\ totalInsertions' =
                            TotalAfterRetrieved(totalInsertions, InsertionsOf(file))
                      /\ totalDeletions' =
                            TotalAfterRetrieved(totalDeletions, DeletionsOf(file))
                      /\ UNCHANGED warnings
                 ELSE /\ files' = Append(files, GitChangeOf(file, <<>>))
                      /\ totalInsertions' =
                            TotalAfterFailed(totalInsertions, InsertionsOf(file))
                      /\ totalDeletions' =
                            TotalAfterFailed(totalDeletions, DeletionsOf(file))
                      /\ warnings' =
                            Append(warnings, <<"Failed to get diff for ">> \o file.file)
    /\ idx' = idx + 1
    /\ pc' = IF idx = Len(repo.summary) THEN "analyzed" ELSE "git_diff"
    /\ UNCHANGED <<envVars, actualFromTag, commits, genVars, outVars, failed>>

(***************************************************************************)
(* run(), after getChangesBetween returned.                                *)
(***************************************************************************)
NoChangesOutputs ==
    << <<"changelog", <<"No changes found">> >>,
       <<"changelog_file", <<>> >>,
       <<"changes_count", <<"0">> >> >>

\* the three core.setOutput calls that end a run that generated a changelog
GeneratedOutputs(text, outputFile, commitCount) ==
    << <<"changelog", text>>,
       <<"changelog_file", <<outputFile>> >>,
       <<"changes_count", NumberToString(commitCount)>> >>

\* a plausible slip: the sentinel is not tested
WritesFileIgnoringSentinel(outputFile) == outputFile # ""

\* if (outputFile && outputFile !== 'stdout')
WritesFile(outputFile) == outputFile # "" /\ outputFile # "stdout"

\* the config record run() passes to createClaudeClient
ClientConfig ==
    [anthropicApiKey |-> cfg.anthropicApiKey, useBedrock |-> cfg.useBedrock,
     useVertex |-> cfg.useVertex, vertexProjectId |-> cfg.vertexProjectId]

\* a plausible slip: the guard reads the files instead of the commits
HasNoFiles(changes) == Len(changes.files) = 0

\* !changes.commits.length
HasNoCommits(changes) == Len(changes.commits) = 0

\* if (!changes.commits.length) { ...; return; }
CheckCommits ==
    /\ pc = "analyzed"
    /\ IF HasNoCommits(Changes)
       THEN /\ outputs' = outputs \o NoChangesOutputs
            /\ pc' = "done"
       ELSE /\ pc' = "create_client"
            /\ UNCHANGED outputs
    /\ UNCHANGED <<envVars, actualFromTag, gitVars, warnings, genVars, fileWrites,
                   failed>>

\* await createClaudeClient({...})
CreateClient ==
    /\ pc = "create_client"
    /\ LET made == createClaudeClient(ClientConfig)
       IN  IF made.ok
           THEN /\ client' = made.kind
                /\ pc' = "build_prompt"
                /\ UNCHANGED failed
           ELSE /\ Fail(made.error)
                /\ UNCHANGED client
    /\ UNCHANGED <<envVars, actualFromTag, gitVars, warnings, prompt, generateCalls,
                   response, changelog, outVars>>

\* generateChangelog: const prompt = this.buildPrompt(changes)
CompilePrompt ==
    /\ pc = "build_prompt"
    /\ prompt' = buildPrompt(Changes)
    /\ pc' = "call_backend"
    /\ UNCHANGED <<envVars, actualFromTag, gitVars, warnings, client, generateCalls,
                   response, changelog, outVars, failed>>

\* a plausible slip: a failed call is tried once more
CallBackendRetrying ==
    /\ pc = "call_backend"
    /\ generateCalls' = generateCalls + 1
    /\ \E outcome \in {"ok", "transport_error", "bad_shape"} :
          IF outcome = "ok"
          THEN /\ response' \in RunResponses
               /\ pc' = "format"
               /\ UNCHANGED failed
          ELSE IF generateCalls = 0
          THEN UNCHANGED <<pc, response, failed>>
          ELSE /\ Fail(GenerateFailurePrefix(client)
                          \o GenerateFailureCause(client, outcome))
               /\ UNCHANGED response
    /\ UNCHANGED <<envVars, actualFromTag, gitVars, warnings, client, prompt,
                   changelog, outVars>>

\* generateChangelog: await this.claudeClient.generateResponse(prompt) is called and
\* resolves with a text or throws
CallBackend ==
    /\ pc = "call_backend"
    /\ generateCalls' = generateCalls + 1
    /\ \E outcome \in {"ok", "transport_error", "bad_shape"} :
          IF outcome = "ok"
          THEN /\ response' \in RunResponses
               /\ pc' = "format"
               /\ UNCHANGED failed
          ELSE /\ Fail(GenerateFailurePrefix(client)
                          \o GenerateFailureCause(client, outcome))
               /\ UNCHANGED response
    /\ UNCHANGED <<envVars, actualFromTag, gitVars, warnings, client, prompt,
                   changelog, outVars>>

\* generateChangelog formats the response and returns; run() goes on to the write
FormatResponse ==
    /\ pc = "format"
    /\ changelog' = IF cfg.format = "json"
                    THEN formatAsJson(response, Changes, today)
                    ELSE formatAsMarkdown(response, today)
    /\ pc' = IF WritesFile(cfg.outputFile) THEN "write_file" ELSE "set_outputs"
    /\ UNCHANGED <<envVars, actualFromTag, gitVars, warnings, client, prompt,
                   generateCalls, response, outVars, failed>>

\* await fs.writeFile(outputFile, changelog, 'utf8') resolves or throws
WriteFile ==
    /\ pc = "write_file"
    /\ \E ok \in BOOLEAN :
          IF ok
          THEN /\ fileWrites' =
                     Append(fileWrites, [path |-> cfg.outputFile, content |-> changelog])
               /\ pc' = "set_outputs"
               /\ UNCHANGED failed
          ELSE /\ Fail(<<"EACCES: permission denied, open ">> \o <<cfg.outputFile>>)
               /\ UNCHANGED fileWrites
    /\ UNCHANGED <<envVars, actualFromTag, gitVars, warnings, genVars, outputs>>

\* the three core.setOutput calls at the end of run()
SetOutputs ==
    /\ pc = "set_outputs"
    /\ outputs' = outputs \o GeneratedOutputs(changelog, cfg.outputFile, Len(Changes.commits))
    /\ pc' = "done"
    /\ UNCHANGED <<envVars, actualFromTag, gitVars, warnings, genVars, fileWrites,
                   failed>>

(***************************************************************************)
(* Specifications.                                                         *)
(***************************************************************************)
\* nothing has run yet
Idle ==
    /\ actualFromTag = <<>>
    /\ commits = <<>>
    /\ files = <<>>
    /\ totalInsertions = 0
    /\ totalDeletions = 0
    /\ idx = 0
    /\ diffCalls = <<>>
    /\ warnings = <<>>
    /\ client = "none"
    /\ prompt = <<>>
    /\ generateCalls = 0
    /\ response = <<>>
    /\ changelog = <<>>
    /\ fileWrites = <<>>
    /\ outputs = <<>>
    /\ failed = <<>>

\* run() from its start
Init ==
    /\ pc = "start"
    /\ cfg \in Configs
    /\ repo \in RunRepos
    /\ today \in Dates
    /\ Idle

Next ==
    \/ Start
    \/ LatestTag
    \/ GitLog
    \/ GitDiffSummary
    \/ GitDiffFile
    \/ CheckCommits
    \/ CreateClient
    \/ CompilePrompt
    \/ CallBackend
    \/ FormatResponse
    \/ WriteFile
    \/ SetOutputs

Spec == Init /\ [][Next]_vars

\* getChangesBetween alone, over richer diff summaries: run() has resolved the tag
InitGit ==
    /\ pc = "git_log"
    /\ cfg = DirectKeyConfig("markdown")
    /\ repo \in GitRepos
    /\ today \in Dates
    /\ Idle

NextGit ==
    \/ GitLog
    \/ GitDiffSummary
    \/ GitDiffFile

SpecGit == InitGit /\ [][NextGit]_vars

\* the state in which getChangesBetween returned for repository r with every diff
\* retrieved
Analyzed(r) ==
    /\ repo = r
    /\ actualFromTag = <<cfg.fromTag>>
    /\ commits = [i \in 1..Len(r.log) |-> GitCommitOf(r.log[i])]
    /\ files = [i \in 1..Len(r.summary) |-> GitChangeOf(r.summary[i], r.summary[i].patch)]
    /\ totalInsertions = SumOver(files, "insertions")
    /\ totalDeletions = SumOver(files, "deletions")
    /\ idx = Len(r.summary) + 1
    /\ diffCalls = [i \in 1..Len(r.summary) |-> r.summary[i].file]
    /\ warnings = <<>>
    /\ fileWrites = <<>>
    /\ outputs = <<>>
    /\ failed = <<>>

\* buildPrompt alone, over larger file lists: the client has been created
InitPrompt ==
    /\ pc = "build_prompt"
    /\ cfg = DirectKeyConfig("markdown")
    /\ today \in Dates
    /\ \E r \in PromptRepos : Analyzed(r)
    /\ client = "anthropic"
    /\ prompt = <<>>
    /\ generateCalls = 0
    /\ response = <<>>
    /\ changelog = <<>>

NextPrompt == CompilePrompt

SpecPrompt == InitPrompt /\ [][NextPrompt]_vars

\* the formatters alone, over more model responses: the backend has answered
InitFormat ==
    /\ pc = "format"
    /\ cfg \in {DirectKeyConfig("markdown"), DirectKeyConfig("json")}
    /\ today \in Dates
    /\ \E r \in FormatRepos : Analyzed(r)
    /\ client = "anthropic"
    /\ prompt = buildPrompt(Changes)
    /\ generateCalls = 1
    /\ response \in ResponseTexts
    /\ changelog = <<>>

NextFormat == FormatResponse

SpecFormat == InitFormat /\ [][NextFormat]_vars

(***************************************************************************)
(* Properties.                                                             *)
(***************************************************************************)
\* getChangesBetween has returned its AnalyzedChanges
Extracted == idx = Len(repo.summary) + 1 /\ pc \notin {"git_log", "git_diff_summary"}

\* createClaudeClient has been called
ClientRequested == Extracted /\ Len(commits) > 0 /\ pc \notin {"analyzed", "create_client"}

\* the one message core.setFailed was called with
FailureOf(cause) == << <<"Action failed: ">> \o cause >>

\* C1: in every ChangeSet getChangesBetween returns, totalInsertions is the sum of
\* the insertions of the returned files and totalDeletions the sum of their
\* deletions, whichever per-file diff retrievals failed.
C1_TotalsAreSums ==
    Extracted =>
        /\ totalInsertions = SumOver(Changes.files, "insertions")
        /\ totalDeletions = SumOver(Changes.files, "deletions")

\* C2: a run whose ChangeSet has no commits sets the three "No changes found"
\* outputs and ends; no backend is constructed or called, no prompt compiled, no
\* file written and no failure reported, whatever the backend configuration is.
C2_NoCommitsEndsQuietly ==
    (Extracted /\ Len(commits) = 0) =>
        /\ pc \in {"analyzed", "done"}
        /\ pc = "done" => outputs = NoChangesOutputs
        /\ pc = "analyzed" => outputs = <<>>
        /\ client = "none"
        /\ prompt = <<>>
        /\ generateCalls = 0
        /\ fileWrites = <<>>
        /\ failed = <<>>

\* a run with no commits ended, with a backend configuration that has no API key and
\* selects Vertex without a project id
C2_Witness ==
    /\ pc = "done"
    /\ Extracted
    /\ Len(commits) = 0
    /\ outputs = NoChangesOutputs
    /\ cfg.useVertex /\ ~cfg.useBedrock
    /\ cfg.vertexProjectId = ""
    /\ cfg.anthropicApiKey = ""

\* the run reported that generateResponse threw
CallFailed ==
    /\ Len(failed) > 0
    /\ Len(failed[1]) >= 2
    /\ failed[1][2] \in {GenerateFailurePrefix(k)[1] : k \in {"bedrock", "vertex", "anthropic"}}

C7_VertexNeedsProjectId ==
    (ClientRequested /\ cfg.useVertex /\ cfg.vertexProjectId = "") =>
        /\ failed = FailureOf(VertexProjectIdRequired)
        /\ client = "none"
        /\ prompt = <<>>
        /\ generateCalls = 0

\* C8: the direct-key variant is constructed exactly when neither flag is set and
\* the API key is present, and without the key the run fails with the
\* missing-credential error; Bedrock is constructed only with useBedrock, Vertex
\* only with useVertex; with both flags set neither flag is silently ignored: no
\* backend is constructed and the run fails.
C8_ExclusiveSelection ==
    ClientRequested =>
        /\ client = "anthropic"
              <=> (~cfg.useBedrock /\ ~cfg.useVertex /\ cfg.anthropicApiKey # "")
        /\ (~cfg.useBedrock /\ ~cfg.useVertex /\ cfg.anthropicApiKey = "")
              => (client = "none" /\ failed = FailureOf(AnthropicApiKeyRequired))
        /\ client = "bedrock" => cfg.useBedrock
        /\ client = "vertex" => cfg.useVertex
        /\ (cfg.useBedrock /\ cfg.useVertex) => (client = "none" /\ Len(failed) = 1)

\* the causes run() can fail with
FailureCauses ==
    {<<"GitHub token is required">>,
     <<"No from tag specified and no tags found in repository">>,
     AnalyzeFailure(<<"Error: unknown revision">>),
     AnalyzeFailure(<<"Error: diff summary failed">>),
     VertexProjectIdRequired,
     AnthropicApiKeyRequired}
        \cup {GenerateFailurePrefix(k) \o GenerateFailureCause(k, o) :
                 k \in {"bedrock", "vertex", "anthropic"},
                 o \in {"transport_error", "bad_shape"}}
        \cup {<<"EACCES: permission denied, open ">> \o <<f>> : f \in {"CHANGELOG.md", "notes.md"}}

RECURSIVE Ascending(_)
Ascending(S) ==
    IF S = {} THEN <<>>
    ELSE LET m == CHOOSE x \in S : \A y \in S : x <= y
         IN  <<m>> \o Ascending(S \ {m})

PositionsOf(text, piece) == {i \in 1..Len(text) : text[i] = piece}

FirstAfter(S, i) == CHOOSE j \in S : j > i /\ \A k \in S : k > i => j <= k

\* the diff samples read back from a prompt: for each "### " title, the path up to
\* the opening fence and the diff text between the fences
PromptSamples(text) ==
    LET titles == Ascending(PositionsOf(text, SampleTitle))
        opens == PositionsOf(text, CodeFenceDiff)
        closes == PositionsOf(text, CodeFence)
    IN  [k \in 1..Len(titles) |->
            LET open == FirstAfter(opens, titles[k])
                close == FirstAfter(closes, open)
            IN  [file |-> SubSeq(text, titles[k] + 1, open - 3),
                 diff |-> SubSeq(text, open + 3, close - 3)]]

\* the positions in `files` of the files with more than 5 changed lines
SignificantPositions ==
    {i \in 1..Len(files) : files[i].insertions + files[i].deletions > 5}

\* the first five of them
FirstFiveSignificant ==
    Ascending({i \in SignificantPositions :
                  Cardinality({j \in SignificantPositions : j <= i}) <= 5})

\* C6: the compiled prompt holds at most 5 diff samples; they are the first 5 files
\* with insertions + deletions > 5, in the files' order; each sample's diff text is
\* a prefix of its file's diff of at most 1000 characters; and with no file over the
\* threshold the prompt has no "Sample Code Changes" header.
C6_BoundedDiffSamples ==
    pc = "call_backend" =>
        LET samples == PromptSamples(prompt)
            expected == FirstFiveSignificant
        IN  /\ Len(samples) <= 5
            /\ Len(samples) = Len(expected)
            /\ \A k \in 1..Len(samples) :
                  /\ samples[k].file = files[expected[k]].file
                  /\ Len(samples[k].diff) <= 1000
                  /\ Len(samples[k].diff) <= Len(files[expected[k]].diff)
                  /\ samples[k].diff
                        = SubSeq(files[expected[k]].diff, 1, Len(samples[k].diff))
            /\ SignificantPositions = {} => SampleHeader \notin Range(prompt)

\* a prompt compiled from more than 5 significant files: 5 samples, the sixth file
\* left out, and a sampled diff of more than 1000 characters cut to 1000
C6_Witness ==
    /\ pc = "call_backend"
    /\ Cardinality(SignificantPositions) > 5
    /\ Len(PromptSamples(prompt)) = 5
    /\ \E k \in 1..5 :
          /\ Len(files[FirstFiveSignificant[k]].diff) > 1000
          /\ Len(PromptSamples(prompt)[k].diff) = 1000
    /\ \E k \in 1..5 : Len(PromptSamples(prompt)[k].diff) < 1000

(***************************************************************************)
(* The parse the claims describe, for newline-separated text: lines are    *)
(* separated by the newline character, a header is "##", optional white    *)
(* space and a category name in any case, a bullet is "-" or "*" followed  *)
(* by white space.                                                         *)
(***************************************************************************)
\* the length of the longest prefix of s made of white space
RECURSIVE LeadingSpaces(_)
LeadingSpaces(s) ==
    IF Len(s) > 0 /\ IsSpace(s[1]) THEN 1 + LeadingSpaces(Tail(s)) ELSE 0

\* the category of a header line in lower case, in a one-element sequence, or <<>>
RefCategory(trimmed) ==
    IF ~StartsWith(trimmed, <<"#", "#">>) THEN <<>>
    ELSE LET rest == DropFirst(trimmed, 2)
             name == MatchCategory(DropFirst(rest, LeadingSpaces(rest)))
         IN  IF Len(name) = 0 THEN <<>> ELSE <<ToLowerCase(name[1])>>

\* a bullet: "-" or "*" followed by white space
RefIsBullet(trimmed) ==
    Len(trimmed) >= 2 /\ trimmed[1] \in {"-", "*"} /\ IsSpace(trimmed[2])

\* the bullet's text, the marker and the white space after it removed
RefItem(trimmed) == DropFirst(trimmed, 1 + LeadingSpaces(DropFirst(trimmed, 1)))

RefLine(st, line) ==
    LET trimmed == Trim(line)
        category == RefCategory(trimmed)
    IN  IF Len(category) > 0
        THEN [sections |-> st.sections \o st.currentSection,
              currentSection |-> <<[type |-> category[1], items |-> <<>>]>>]
        ELSE IF Len(st.currentSection) > 0 /\ RefIsBullet(trimmed)
        THEN [st EXCEPT !.currentSection[1].items = Append(@, RefItem(trimmed))]
        ELSE st

RECURSIVE RefLines(_, _)
RefLines(st, lines) ==
    IF Len(lines) = 0 THEN st ELSE RefLines(RefLine(st, lines[1]), Tail(lines))

RefSections(text) ==
    LET st == RefLines(ParserStart, Split(text, <<"\n">>))
    IN  st.sections \o st.currentSection

\* text with no heading marker and no bullet marker, in which neither the described
\* parse nor the code's recognises a header
Garbled(text) ==
    /\ Range(text) \cap {"#", "-", "*"} = {}
    /\ RefSections(text) = <<>>
    /\ ParsedSections(text) = <<>>

\* the response has been formatted in the given mode
Formatted(mode) == cfg.format = mode /\ pc \in {"write_file", "set_outputs", "done"}
                      /\ changelog # <<>>

\* C4: structured-mode formatting never fails the run, and for garbled text the
\* document it returns is the fallback document, holding the raw text and the
\* ChangeSet's numbers and refs.
C4_GarbledGivesFallback ==
    Formatted("json") =>
        /\ failed = <<>>
        /\ Garbled(response) => changelog = FallbackJson(today, response, Changes)

\* C5: for newline-separated text the structured document holds the sections of the
\* described parse; "## Fixed" and "- Corrected crash on null input" give one
\* section fixed with that one item, the six canonical headers six sections.
C5_SectionsAreReferenceParse ==
    (Formatted("json") /\ "\\" \notin Range(response)) =>
        /\ changelog = ChangelogJson(today, RefSections(response), SummaryText(Changes))
        /\ response = Scenario3Text =>
              changelog = ChangelogJson(today,
                              <<[type |-> <<"f", "i", "x", "e", "d">>,
                                 items |-> <<CorrectedCrashItem>>]>>,
                              SummaryText(Changes))
        /\ response = SixCanonicalText => Len(RefSections(response)) = 6

\* some line of the text begins with a heading marker
HasHeadingLine(text) ==
    \E line \in Range(Split(text, <<"\n">>)) : StartsWith(line, <<"#">>)

WithUnreleasedHeader(text) ==
    <<"#", "#", " ", "[Unreleased] - ">> \o today \o <<"\\", "n", "\\", "n">> \o text

\* C9 as stated: markdown-mode formatting returns the trimmed text unchanged when
\* some line of it begins with a heading marker, and with the "[Unreleased]" header
\* prepended otherwise.
C9_HeaderIffNoHeadingLine ==
    Formatted("markdown") =>
        changelog = IF HasHeadingLine(Trim(response))
                    THEN Trim(response)
                    ELSE WithUnreleasedHeader(Trim(response))

\* C9, amended: markdown-mode formatting returns the trimmed text unchanged when it
\* contains "## " (two heading markers and a space) anywhere, and with the
\* "[Unreleased]" header prepended otherwise.
C9_HeaderIffNoMarkerAnywhere ==
    Formatted("markdown") =>
        changelog = IF Includes(Trim(response), <<"#", "#", " ">>)
                    THEN Trim(response)
                    ELSE WithUnreleasedHeader(Trim(response))

\* markdown-mode formatting prepended the header to a text with a "# " heading line,
\* and left a text alone whose only "## " is in the middle of a line
C9_Witness ==
    /\ Formatted("markdown")
    /\ \/ /\ HasHeadingLine(Trim(response))
          /\ changelog = WithUnreleasedHeader(Trim(response))
       \/ /\ ~HasHeadingLine(Trim(response))
          /\ changelog = Trim(response)

(***************************************************************************)
(* The file write and the outputs of run().                                *)
(***************************************************************************)
\* the number a decimal numeral denotes
RECURSIVE DecimalValue(_)
DecimalValue(digits) ==
    IF Len(digits) = 0 THEN 0
    ELSE 10 * DecimalValue(SubSeq(digits, 1, Len(digits) - 1))
            + (CHOOSE d \in 0..9 : DigitChars[d + 1] = digits[Len(digits)])

\* generateChangelog has returned a changelog
Generated == generateCalls = 1 /\ response # <<>> /\ changelog # <<>>

\* the run went past the write step without a failure
PastWrite == pc = "set_outputs" \/ (pc = "done" /\ Generated /\ failed = <<>>)

\* C11: a file is written only after the changelog has been generated, at most
\* once, to outputFile and with the generated changelog as content; a run that is
\* past the write step has written if and only if outputFile is non-empty and not
\* "stdout"; the run then sets the three outputs: the changelog (the content
\* written, when a file was written), outputFile, and the commit count in decimal.
C11_WriteIffPathGiven ==
    /\ Len(fileWrites) <= 1
    /\ Len(fileWrites) = 1 =>
          /\ Generated
          /\ pc \in {"set_outputs", "done"}
          /\ fileWrites[1] = [path |-> cfg.outputFile, content |-> changelog]
    /\ pc = "write_file" => (Generated /\ cfg.outputFile \notin {"", "stdout"})
    /\ PastWrite => (Len(fileWrites) = 1 <=> cfg.outputFile \notin {"", "stdout"})
    /\ (pc = "done" /\ Generated /\ failed = <<>>) =>
          /\ Len(outputs) = 3
          /\ outputs[1] = <<"changelog", changelog>>
          /\ Len(fileWrites) = 1 => outputs[1][2] = fileWrites[1].content
          /\ outputs[2] = <<"changelog_file", <<cfg.outputFile>> >>
          /\ outputs[3][1] = "changes_count"
          /\ DecimalValue(outputs[3][2]) = Len(commits)
          /\ Len(outputs[3][2]) > 1 => outputs[3][2][1] # "0"

\* a run with two commits wrote its structured changelog to notes.md and set the
\* outputs
C11_Witness ==
    /\ pc = "done"
    /\ cfg.outputFile = "notes.md"
    /\ cfg.format = "json"
    /\ Len(commits) = 2
    /\ Len(fileWrites) = 1
    /\ fileWrites[1].content = changelog
    /\ outputs = GeneratedOutputs(changelog, "notes.md", 2)

\* a run with outputFile "stdout" ended with its three outputs and no file written
C11_StdoutWitness ==
    /\ pc = "done"
    /\ cfg.outputFile = "stdout"
    /\ Generated
    /\ fileWrites = <<>>
    /\ Len(outputs) = 3

(***************************************************************************)
(* Per-file diff retrieval in getChangesBetween.                           *)
(***************************************************************************)
\* the warning logged when the retrieval for the i-th summary file failed
DiffWarning(i) == <<"Failed to get diff for ">> \o repo.summary[i].file

\* the summary files, by position, whose entry in `files` has no diff text
WithoutDiff == {i \in 1..Len(files) : files[i].diff = <<>>}

\* getChangesBetween is in its loop or has returned
InLoopOrReturned == pc \in {"git_diff", "analyzed"}

\* C12: git.diff is called for the summary's files one after the other in the
\* summary's order, and each call, failed or not, adds one entry to `files` with the
\* summary file's path and counts, with the retrieved text or, after a failure,
\* the empty text and one warning; the loop goes on to the next file, and the
\* returned `files` has one entry per summary file in order. The extraction
\* fails only when git.log or git.diffSummary failed, before any git.diff call.
C12_FileFailureDoesNotAbort ==
    /\ InLoopOrReturned =>
          /\ failed = <<>>
          /\ idx \in 1..(Len(repo.summary) + 1)
          /\ Len(files) = idx - 1
          /\ diffCalls = [i \in 1..(idx - 1) |-> repo.summary[i].file]
          /\ pc = "analyzed" <=> idx = Len(repo.summary) + 1
          /\ \A i \in 1..Len(files) :
                /\ files[i].file = repo.summary[i].file
                /\ files[i].insertions =
                      (IF repo.summary[i].binary THEN 0 ELSE repo.summary[i].insertions)
                /\ files[i].deletions =
                      (IF repo.summary[i].binary THEN 0 ELSE repo.summary[i].deletions)
                /\ files[i].diff \in {repo.summary[i].patch, <<>>}
          /\ Len(warnings) = Cardinality(WithoutDiff)
          /\ \A k \in 1..Len(warnings) :
                \E i \in WithoutDiff :
                   /\ warnings[k] = DiffWarning(i)
                   /\ Cardinality({j \in WithoutDiff : j < i}) = k - 1
    /\ failed # <<>> =>
          /\ pc = "done"
          /\ diffCalls = <<>>
          /\ files = <<>>
          /\ failed \in {FailureOf(AnalyzeFailure(<<"Error: unknown revision">>)),
                          FailureOf(AnalyzeFailure(<<"Error: diff summary failed">>))}

\* getChangesBetween returned three files: the retrieval for the second one, with
\* 3 insertions and 1 deletion, failed, and the third one was still retrieved
C12_Witness ==
    /\ pc = "analyzed"
    /\ Len(repo.summary) = 3
    /\ Len(files) = 3
    /\ files[1].diff = repo.summary[1].patch
    /\ files[2] = [file |-> repo.summary[2].file, insertions |-> 3, deletions |-> 1,
                    diff |-> <<>>]
    /\ files[3].diff = repo.summary[3].patch
    /\ files[3].diff # <<>>
    /\ warnings = <<DiffWarning(2)>>
    /\ diffCalls = <<repo.summary[1].file, repo.summary[2].file, repo.summary[3].file>>
    /\ failed = <<>>

(***************************************************************************)
(* The header lines of structured-mode parsing.                            *)
(***************************************************************************)
\* the category, in lower case and in a one-element sequence, of a line that is a
\* category name in any case after heading markers and white space, or <<>>
NamedCategory(trimmed) ==
    LET rest == DropFirst(trimmed, LeadingRun(trimmed, "#"))
        name == ToLowerCase(DropFirst(rest, LeadingSpaces(rest)))
    IN  IF \E i \in 1..Len(CategoryNames) : name = ToLowerCase(CategoryNames[i])
        THEN <<name>>
        ELSE <<>>

\* a line that begins with a bullet marker
StartsWithBulletMarker(trimmed) == Len(trimmed) > 0 /\ trimmed[1] \in {"-", "*"}

\* the parser's state before the k-th of the lines
StateBefore(lines, k) == ParseLines(ParserStart, SubSeq(lines, 1, k - 1))

\* the state after a header of the given category: the open section, if any, is
\* pushed and a section without items is open
Opened(st, category) ==
    [sections |-> st.sections \o st.currentSection,
     currentSection |-> <<[type |-> category, items |-> <<>>]>>]

\* C13: for each line the structured-mode parser processes, if the trimmed line
\* is a category name in any letter case, optionally after heading markers
\* ("Fixed", "# Fixed", "## FIXED", "### Fixed"), the parser pushes the open section
\* (also one without items) and opens a section of that category; every other line
\* that does not begin with a bullet marker leaves the parser's state unchanged.
C13_NamedHeaderOpensSection ==
    Formatted("json") =>
        LET lines == ContentLines(response)
        IN  \A k \in 1..Len(lines) :
               LET st == StateBefore(lines, k)
                   trimmed == Trim(lines[k])
                   category == NamedCategory(trimmed)
               IN  IF Len(category) > 0
                   THEN ParseLine(st, lines[k]) = Opened(st, category[1])
                   ELSE StartsWithBulletMarker(trimmed) \/ ParseLine(st, lines[k]) = st

====
